---- MODULE Spec2Model ----
(***************************************************************************)
(* Streaming Session Manager of voice-train                                *)
(* (backend/src/websocket_manager_new.py, backend/src/websocket_routes.py),*)
(* and the audio pipeline behind it (backend/src/audio_processor.py,       *)
(* backend/src/tflite_inference.py).                                       *)
(*                                                                         *)
(* The manager runs on one asyncio event loop.  A coroutine runs without   *)
(* interruption from one suspension point to the next, so every action     *)
(* below is "resume one coroutine and run it to its next await".  The      *)
(* suspension points are websocket.accept, websocket.send_text,            *)
(* websocket.receive_text / receive_bytes and asyncio.sleep.               *)
(***************************************************************************)
EXTENDS Integers, Sequences, FiniteSets, TLC

(* ------------------------------ bounds -------------------------------- *)
\* inputs in one run: inbound observer messages, audio chunks, iterations of
\* the telemetry loop and calls made by Api, all together
MaxEvents == 2
MaxFailures == 1     \* transports that break while their session is open

Observers == {"o1", "o2"}           \* sessions served by websocket_endpoint
Ingests == {"i1"}                   \* sessions served by audio_websocket_endpoint
Sessions == Observers \cup Ingests
\* The order in which a set of these sessions is iterated: the order of their
\* hashes, which is arbitrary but the same for every iteration.
HashOrder == <<"o1", "o2", "i1">>
TaskOrder == <<"t1", "t2", "t3">>  \* asyncio.Task objects, in creation order
TaskIds == {TaskOrder[n] : n \in 1..Len(TaskOrder)}
Api == "api"                        \* a caller of the manager outside the handlers
Procs == Sessions \cup TaskIds \cup {Api}

None == "None"
Utilizations == {0, 92}        \* sampled max(cpu_percent, memory.percent)
Timestamps == {1, 2}                \* "timestamp" values of a ping

VARIABLES
    active_connections,     \* WebSocketManager.active_connections
    dashboard_connections,  \* WebSocketManager.dashboard_connections
    client_info,            \* WebSocketManager.client_info
    dashboard_data,         \* WebSocketManager.dashboard_data
    metrics_update_task,    \* WebSocketManager.metrics_update_task (None or a task)
    tasks,                  \* position of every telemetry task object
    cancelled,              \* tasks on which Task.cancel() was called while alive
    pc,                     \* position of every endpoint handler, and of Api
    frame,                  \* the send / broadcast a process is suspended in
    failed,                 \* sessions whose transport raises on send and receive
    failures,               \* transports that broke while their session was open
    first_sent,             \* per session: the first message send_text handed over
    handling,               \* per session: the inbound message or chunk of its last step
    received,               \* per session: inbound messages / chunks received so far
    ticks,                  \* telemetry loop iterations started so far
    calls,                  \* calls made by Api so far
    processor,              \* the AudioProcessor object (its four attributes)
    processed,              \* calls of the audio pipeline made so far
    audio_call,             \* the last call of the audio pipeline and what it did
    processing_stats,       \* AudioProcessor.processing_stats
    engine,                 \* the TFLiteInferenceEngine object (its four attributes)
    engine_ops,             \* calls of the inference engine made so far
    engine_call,            \* the last call of the inference engine and its result
    removed                 \* ids given to remove_speaker and not enrolled since

vars == <<active_connections, dashboard_connections, client_info, dashboard_data,
          metrics_update_task, tasks, cancelled, pc, frame, failed, failures,
          first_sent,
          handling, received, ticks, calls, processor, processed, audio_call,
          processing_stats,
          engine, engine_ops, engine_call, removed>>

\* the state of the session manager
manager_vars == <<active_connections, dashboard_connections, client_info, dashboard_data,
                  metrics_update_task, tasks, cancelled, pc, frame, failed, failures,
                  first_sent, handling, received, ticks, calls>>

\* the state of the audio processor and of the inference engine
audio_vars == <<processor, processed, audio_call, processing_stats>>
engine_vars == <<engine, engine_ops, engine_call, removed>>

\* the state of the audio pipeline, which no method of the manager touches
subsystems == <<audio_vars, engine_vars>>

(* ------------------------- small helpers ------------------------------ *)
Restrict(f, S) == [x \in S |-> f[x]]

NoStatus == [usage |-> 0, status |-> "none"]

\* A message dict: its type and payload (status: a SystemMetrics value, arg: a
\* ping's timestamp or the number of the chunk an audio_data message was made
\* for, paused, speaker: the current_speaker a snapshot carries).
Msg(type, status, arg, paused) ==
    [type |-> type, status |-> status, arg |-> arg, paused |-> paused,
     speaker |-> None]

\* dashboard_data.current_speaker once a speaker was recognized: a
\* RecognitionResult, whose timestamp is a datetime object.
RecognitionResult == "RecognitionResult"

\* json.dumps(message) returns a text unless the dict holds a value it cannot
\* encode: asdict() keeps the datetime of current_speaker.timestamp, on which
\* json.dumps raises TypeError.
Serializable(msg) == msg.speaker # RecognitionResult

NoMsg == Msg("none", NoStatus, 0, FALSE)

\* What a coroutine suspended in send_text holds: kind "client" inside
\* send_to_client, "observers" inside broadcast_to_dashboard, "all" inside
\* broadcast.  all/rem are the iterator's set and the members it has yet to
\* yield, disc is "disconnected", cur/ok the send in flight and whether it
\* raised; start is the set the broadcast began with and delivered counts,
\* per session, the sends of this broadcast that did not raise.
Frame(kind, msg, S) ==
    [kind |-> kind, msg |-> msg, all |-> S, rem |-> S, disc |-> {},
     cur |-> "none", ok |-> TRUE, start |-> S,
     delivered |-> [s \in Sessions |-> 0]]

NoFrame == [kind |-> "none"]

\* The world a synchronous piece of manager code reads and writes.
World == [active_connections |-> active_connections,
          dashboard_connections |-> dashboard_connections,
          client_info |-> client_info,
          dashboard_data |-> dashboard_data,
          metrics_update_task |-> metrics_update_task,
          tasks |-> tasks,
          cancelled |-> cancelled,
          failed |-> failed,
          failures |-> failures,
          first_sent |-> first_sent]

Install(w) ==
    /\ active_connections' = w.active_connections
    /\ dashboard_connections' = w.dashboard_connections
    /\ client_info' = w.client_info
    /\ dashboard_data' = w.dashboard_data
    /\ metrics_update_task' = w.metrics_update_task
    /\ tasks' = w.tasks
    /\ cancelled' = w.cancelled
    /\ failed' = w.failed
    /\ failures' = w.failures
    /\ first_sent' = w.first_sent


(* ---------------- WebSocketManager: synchronous methods --------------- *)
\* asyncio.Task.cancel(): a task that has finished is left alone.
\* A finished task that the manager no longer refers to is garbage: its
\* identity is free again ("none").
TaskCancel(w, t) ==
    IF w.tasks[t] \in {"ready", "send", "sleep"}
    THEN [w EXCEPT !.cancelled = @ \cup {t}]
    ELSE [w EXCEPT !.tasks[t] = "none"]

\* asyncio.create_task(self._metrics_update_loop()): a new task object,
\* scheduled but not yet run.
NewTask(w) ==
    TaskOrder[CHOOSE n \in 1..Len(TaskOrder) :
                 /\ w.tasks[TaskOrder[n]] = "none"
                 /\ \A k \in 1..(n - 1) : w.tasks[TaskOrder[k]] # "none"]

start_metrics_updates(w) ==
    IF w.metrics_update_task = None
    THEN [w EXCEPT !.tasks[NewTask(w)] = "ready", !.metrics_update_task = NewTask(w)]
    ELSE w

stop_metrics_updates(w) ==
    IF w.metrics_update_task # None
    THEN [TaskCancel(w, w.metrics_update_task) EXCEPT !.metrics_update_task = None]
    ELSE w

\* "if len(self.active_connections) == 0 and len(self.dashboard_connections) == 0"
NoConnectionsRemain(w) == w.active_connections = {} /\ w.dashboard_connections = {}

Discard(w, ws) ==
    [w EXCEPT !.active_connections = @ \ {ws},
              !.dashboard_connections = @ \ {ws},
              !.client_info = Restrict(@, DOMAIN @ \ {ws})]

\* disconnect with the "no connections remain" test made before the removal
disconnect_TestBeforeDiscard(w, ws) ==
    IF NoConnectionsRemain(w)
    THEN stop_metrics_updates(Discard(w, ws))
    ELSE Discard(w, ws)

disconnect(w, ws) ==
    IF NoConnectionsRemain(Discard(w, ws))
    THEN stop_metrics_updates(Discard(w, ws))
    ELSE Discard(w, ws)

\* "for connection in disconnected: self.disconnect(connection)"
RECURSIVE DisconnectEach(_, _)
DisconnectEach(w, S) ==
    IF S = {} THEN w
    ELSE LET c == CHOOSE x \in S : TRUE
         IN DisconnectEach(disconnect(w, c), S \ {c})

\* "if websocket in self.client_info: ...["messages_sent"] += 1"
CountSent(w, ws) ==
    IF ws \in DOMAIN w.client_info
    THEN [w EXCEPT !.client_info[ws].messages_sent = @ + 1]
    ELSE w

\* "if websocket in websocket_manager.client_info: ...["messages_received"] += 1"
CountReceived(w, ws) ==
    IF ws \in DOMAIN w.client_info
    THEN [w EXCEPT !.client_info[ws].messages_received = @ + 1]
    ELSE w

(* ------------------------------ transport ----------------------------- *)
\* A send on a transport that has failed raises; a send on a healthy one
\* either hands the message over or is the first to find the transport broken.
SendOutcomes(w, c) ==
    IF c \in w.failed THEN {FALSE}
    ELSE IF w.failures < MaxFailures THEN {TRUE, FALSE}
    ELSE {TRUE}

\* connection.send_text(json.dumps(message)), up to its suspension.
send_text(w, c, msg, ok) ==
    IF ok
    THEN [w EXCEPT !.first_sent[c] = IF @ = NoMsg THEN msg ELSE @]
    ELSE [w EXCEPT !.failed = @ \cup {c},
                   !.failures = IF c \in w.failed THEN @ ELSE @ + 1]

(* -------------------------- send_to_client ---------------------------- *)
\* The call, up to the await of send_text; when json.dumps raises, up to the
\* end of the call ("except Exception": disconnect), with no suspension.
SendToClientCall(w, ws, msg) ==
    IF Serializable(msg)
    THEN { [w |-> send_text(w, ws, msg, ok),
            frame |-> [kind |-> "client", msg |-> msg, cur |-> ws, ok |-> ok]]
           : ok \in SendOutcomes(w, ws) }
    ELSE { [w |-> disconnect(w, ws), frame |-> NoFrame] }

\* The rest of send_to_client once send_text has returned or raised.
SendToClientResume(w, f) ==
    IF f.ok THEN CountSent(w, f.cur) ELSE disconnect(w, f.cur)


(* ------------------ broadcast / broadcast_to_dashboard ---------------- *)
\* One step of a broadcast ends in one of three ways: suspended in the next
\* send_text, returned, or left by an exception.
Outcome(kind, w, f) == [kind |-> kind, w |-> w, frame |-> f]

\* "for connection in self.dashboard_connections" asks the iterator of the live
\* set for its next member: a set whose size differs from the size it had when
\* the iterator was made raises RuntimeError (Set changed size during
\* iteration).  broadcast() iterates its own copy, which nobody else changes.
IterRaises(w, f) ==
    /\ f.kind = "observers"
    /\ Cardinality(w.dashboard_connections) # Cardinality(f.all)

\* The members the iterator may still yield.  A live set of the same size but
\* other members has been rehashed under the iterator, which then yields some
\* of the current members, in an order and number the hash table decides.
IterRemaining(w, f) ==
    IF f.kind = "all" \/ w.dashboard_connections = f.all
    THEN {f.rem}
    ELSE SUBSET w.dashboard_connections

\* The member the iterator yields first among those it has yet to yield.
Position(c) == CHOOSE n \in 1..Len(HashOrder) : HashOrder[n] = c

IterNext(rem) == CHOOSE c \in rem : \A d \in rem : Position(c) <= Position(d)

IterSet(w, f) == IF f.kind = "all" THEN f.all ELSE w.dashboard_connections

\* The loop from the "for" statement to the next suspension or the end.
BroadcastLoop(w, f) ==
    IF IterRaises(w, f)
    THEN {Outcome("raise", w, NoFrame)}
    ELSE UNION {
           IF rem = {}
           THEN {Outcome("return", DisconnectEach(w, f.disc), NoFrame)}
           ELSE { Outcome("suspend", send_text(w, IterNext(rem), f.msg, ok),
                          [f EXCEPT !.all = IterSet(w, f),
                                    !.rem = rem \ {IterNext(rem)},
                                    !.cur = IterNext(rem), !.ok = ok,
                                    !.delivered[IterNext(rem)] = IF ok THEN @ + 1 ELSE @])
                  : ok \in SendOutcomes(w, IterNext(rem)) }
           : rem \in IterRemaining(w, f) }

\* The body of the loop after send_text returned or raised, then the loop.
BroadcastResume(w, f) ==
    BroadcastLoop(IF f.ok THEN CountSent(w, f.cur) ELSE w,
                  IF f.ok THEN f ELSE [f EXCEPT !.disc = @ \cup {f.cur}])

broadcast_to_dashboard(w, msg) ==
    IF w.dashboard_connections = {}
    THEN {Outcome("return", w, NoFrame)}
    ELSE BroadcastLoop(w, Frame("observers", msg, w.dashboard_connections))

broadcast(w, msg) ==
    IF w.active_connections = {} /\ w.dashboard_connections = {}
    THEN {Outcome("return", w, NoFrame)}
    ELSE BroadcastLoop(w, Frame("all", msg,
                                w.active_connections \cup w.dashboard_connections))

(* ------------------------- update_system_metrics ---------------------- *)
\* status = "active"; > 90 -> "warning"; > 95 -> "error"
Status(u) == IF u > 95 THEN "error" ELSE IF u > 90 THEN "warning" ELSE "active"

SystemMetrics(u) == [usage |-> u, status |-> Status(u)]

update_system_metrics(w, u) ==
    [w EXCEPT !.dashboard_data.system_status = SystemMetrics(u)]

\* {"type": "system_status", "data": asdict(self.dashboard_data.system_status)}
SystemStatusMsg(w) == Msg("system_status", w.dashboard_data.system_status, 0, FALSE)



(* ------------------------------ steps --------------------------------- *)
\* Where a coroutine is after running to its next suspension.
Result(w, f, at) == [w |-> w, frame |-> f, pc |-> at]

RECURSIVE Sum(_, _)
Sum(f, S) ==
    IF S = {} THEN 0
    ELSE LET x == CHOOSE y \in S : TRUE IN f[x] + Sum(f, S \ {x})

\* The inputs taken so far.
Events == ticks + calls + Sum(received, Sessions)

Inbound(type, arg, paused) == [type |-> type, arg |-> arg, paused |-> paused]

NoInbound == [type |-> "none"]

\* A session handler moves; in is the inbound message its step is about.
Move(p, x, in) ==
    /\ Install(x.w)
    /\ frame' = [frame EXCEPT ![p] = x.frame]
    /\ pc' = [pc EXCEPT ![p] = x.pc]
    /\ handling' = [handling EXCEPT ![p] = IF x.pc = "done" THEN NoInbound ELSE in]
    /\ UNCHANGED subsystems

\* A telemetry task moves.
TaskMove(t, x) ==
    /\ Install([x.w EXCEPT !.tasks[t] = x.pc])
    /\ frame' = [frame EXCEPT ![t] = x.frame]
    /\ UNCHANGED <<pc, handling>>
    /\ UNCHANGED subsystems

(* ------ websocket_endpoint (observer sessions), connect_dashboard ----- *)
\* {"type": "dashboard_data", "data": asdict(self.dashboard_data)}
DashboardDataMsg(w) ==
    [Msg("dashboard_data", w.dashboard_data.system_status, 0, FALSE)
       EXCEPT !.speaker = w.dashboard_data.current_speaker]

\* connect_dashboard between "await websocket.accept()" and the await of the
\* initial send.
RegisterDashboard(w, ws) ==
    [w EXCEPT !.dashboard_connections = @ \cup {ws},
              !.client_info = [x \in DOMAIN @ \cup {ws} |->
                                 IF x = ws
                                 THEN [messages_sent |-> 0, messages_received |-> 0]
                                 ELSE @[x]]]

\* "if len(self.dashboard_connections) == 1: self.start_metrics_updates()"
FirstDashboard(w) == Cardinality(w.dashboard_connections) = 1

\* an accept that raises only after the session was added to its membership set
AcceptRaises_AfterRegistering(s) ==
    /\ pc[s] = "connecting"
    /\ pc' = [pc EXCEPT ![s] = "done"]
    /\ dashboard_connections' = dashboard_connections \cup ({s} \cap Observers)
    /\ active_connections' = active_connections \cup ({s} \cap Ingests)
    /\ UNCHANGED <<client_info, dashboard_data, metrics_update_task, tasks, cancelled,
                   frame, failed, failures, first_sent, handling, received, ticks, calls>>
    /\ UNCHANGED subsystems

\* accept raises: the handler ends before its try block, nothing was registered
AcceptRaises(s) ==
    /\ pc[s] = "connecting"
    /\ pc' = [pc EXCEPT ![s] = "done"]
    /\ UNCHANGED <<active_connections, dashboard_connections, client_info,
                   dashboard_data, metrics_update_task, tasks, cancelled, frame,
                   failed, failures, first_sent, handling, received, ticks, calls>>
    /\ UNCHANGED subsystems

\* The end of connect_dashboard, after send_to_client.
StartIfFirstDashboard(w) == IF FirstDashboard(w) THEN start_metrics_updates(w) ELSE w

AcceptDashboard(o) ==
    /\ pc[o] = "connecting"
    /\ \E r \in SendToClientCall(RegisterDashboard(World, o), o, DashboardDataMsg(World)) :
          Move(o, IF r.frame = NoFrame
                  THEN Result(StartIfFirstDashboard(r.w), NoFrame, "receive")
                  ELSE Result(r.w, r.frame, "connect_send"), NoInbound)
    /\ UNCHANGED <<received, ticks, calls>>

ConnectDashboardResume(o) ==
    /\ pc[o] = "connect_send"
    /\ Move(o, Result(StartIfFirstDashboard(SendToClientResume(World, frame[o])),
                      NoFrame, "receive"), NoInbound)
    /\ UNCHANGED <<received, ticks, calls>>

\* an endpoint whose "finally" closes the connection without disconnect()
EndpointFinally_NoDisconnect(w, ws) == [w EXCEPT !.failed = @ \cup {ws}]

\* The "finally" of both endpoints; the server then closes the connection.
EndpointFinally(w, ws) == [disconnect(w, ws) EXCEPT !.failed = @ \cup {ws}]

ErrorMsg == Msg("error", NoStatus, 0, FALSE)

\* Where the handler is after calling send_to_client with a reply: suspended in
\* it, or past it and the messages_received count, back at its receive.
Reply(o, x) ==
    IF x.frame = NoFrame
    THEN Result(CountReceived(x.w, o), NoFrame, "receive")
    ELSE Result(x.w, x.frame, "reply_send")

\* The same for the error message of an except clause, which counts nothing.
ErrorReply(o, x) ==
    IF x.frame = NoFrame
    THEN Result(x.w, NoFrame, "receive")
    ELSE Result(x.w, x.frame, "error_send")

\* What the handler does with the outcome of the broadcast it awaits in
\* handle_message (toggle_recognition).
ObserverAfterBroadcast(o, r) ==
    IF r.kind = "suspend" THEN {Result(r.w, r.frame, "bcast")}
    ELSE IF r.kind = "return"
    THEN {Result(CountReceived(r.w, o), NoFrame, "receive")}
    ELSE \* "except Exception as e": send_to_client(websocket, error)
         { ErrorReply(o, x) : x \in SendToClientCall(r.w, o, ErrorMsg) }

InboundMessages ==
    {Inbound("ping", ts, FALSE) : ts \in Timestamps}
    \cup {Inbound("toggle_recognition", 0, b) : b \in BOOLEAN}
    \cup {Inbound(ty, 0, FALSE) :
            ty \in {"request_dashboard_data", "request_metrics_update", "other",
                    "invalid_json"}}

PongMsg(in) == Msg("pong", NoStatus, in.arg, FALSE)

RecognitionStatusMsg(in) == Msg("recognition_status", NoStatus, 0, in.paused)

\* handle_message and the handler around it, from the message to the next await.
HandleMessage(w, o, in) ==
    IF in.type = "invalid_json"
    THEN { ErrorReply(o, x) : x \in SendToClientCall(w, o, ErrorMsg) }
    ELSE IF in.type = "ping"
    THEN { Reply(o, x) : x \in SendToClientCall(w, o, PongMsg(in)) }
    ELSE IF in.type = "request_dashboard_data"
    THEN { Reply(o, x) : x \in SendToClientCall(w, o, DashboardDataMsg(w)) }
    ELSE IF in.type = "request_metrics_update"
    THEN UNION {
           { Reply(o, x)
             : x \in SendToClientCall(update_system_metrics(w, u), o,
                        SystemStatusMsg(update_system_metrics(w, u))) }
           : u \in Utilizations }
    ELSE IF in.type = "toggle_recognition"
    THEN UNION { ObserverAfterBroadcast(o, r)
                 : r \in broadcast_to_dashboard(w, RecognitionStatusMsg(in)) }
    ELSE {Result(CountReceived(w, o), NoFrame, "receive")}

ReceiveText(o) ==
    /\ pc[o] = "receive"
    /\ o \notin failed
    /\ Events < MaxEvents
    /\ received' = [received EXCEPT ![o] = @ + 1]
    /\ \E in \in InboundMessages :
          \E x \in HandleMessage(World, o, in) : Move(o, x, in)
    /\ UNCHANGED <<ticks, calls>>

\* receive_text / receive_bytes raises (WebSocketDisconnect or another error):
\* except, finally.
ReceiveRaises(s) ==
    /\ pc[s] = "receive"
    /\ Move(s, Result(EndpointFinally(World, s), NoFrame, "done"), NoInbound)
    /\ UNCHANGED <<received, ticks, calls>>

ReplyResume(o) ==
    /\ pc[o] = "reply_send"
    /\ Move(o, Result(CountReceived(SendToClientResume(World, frame[o]), o),
                      NoFrame, "receive"), NoInbound)
    /\ UNCHANGED <<received, ticks, calls>>

ErrorResume(o) ==
    /\ pc[o] = "error_send"
    /\ Move(o, Result(SendToClientResume(World, frame[o]), NoFrame, "receive"), NoInbound)
    /\ UNCHANGED <<received, ticks, calls>>

ObserverBroadcastResume(o) ==
    /\ pc[o] = "bcast"
    /\ \E r \in BroadcastResume(World, frame[o]) :
          \E x \in ObserverAfterBroadcast(o, r) :
             Move(o, x, IF x.pc = "receive" THEN NoInbound ELSE handling[o])
    /\ UNCHANGED <<received, ticks, calls>>

(* ------- audio_websocket_endpoint (ingest sessions), connect ---------- *)
RegisterAudio(w, ws) == [w EXCEPT !.active_connections = @ \cup {ws}]

\* "if len(self.active_connections) == 1: self.start_metrics_updates()"
FirstActive(w) == Cardinality(w.active_connections) = 1

\* The end of connect, after send_to_client.
StartIfFirstActive(w) == IF FirstActive(w) THEN start_metrics_updates(w) ELSE w

AcceptAudio(i) ==
    /\ pc[i] = "connecting"
    /\ \E r \in SendToClientCall(RegisterAudio(World, i), i, DashboardDataMsg(World)) :
          Move(i, IF r.frame = NoFrame
                  THEN Result(StartIfFirstActive(r.w), NoFrame, "receive")
                  ELSE Result(r.w, r.frame, "connect_send"), NoInbound)
    /\ UNCHANGED <<received, ticks, calls>>

ConnectAudioResume(i) ==
    /\ pc[i] = "connect_send"
    /\ Move(i, Result(StartIfFirstActive(SendToClientResume(World, frame[i])),
                      NoFrame, "receive"), NoInbound)
    /\ UNCHANGED <<received, ticks, calls>>

\* a handler that does not await send_audio_data before its next receive
IngestAfterBroadcast_NoAwait(i, r) ==
    IF r.kind = "suspend" THEN Result(r.w, r.frame, "receive")
    ELSE IF r.kind = "return" THEN Result(r.w, NoFrame, "receive")
    ELSE Result(EndpointFinally(r.w, i), NoFrame, "done")

\* What the handler does with the outcome of send_audio_data.
IngestAfterBroadcast(i, r) ==
    IF r.kind = "suspend" THEN Result(r.w, r.frame, "bcast")
    ELSE IF r.kind = "return" THEN Result(r.w, NoFrame, "receive")
    ELSE Result(EndpointFinally(r.w, i), NoFrame, "done")

\* send_audio_data for the k-th chunk of a session
AudioDataMsg(k) == Msg("audio_data", NoStatus, k, FALSE)

ReceiveBytes(i) ==
    /\ pc[i] = "receive"
    /\ i \notin failed
    /\ Events < MaxEvents
    /\ received' = [received EXCEPT ![i] = @ + 1]
    /\ \E r \in broadcast_to_dashboard(World, AudioDataMsg(received[i] + 1)) :
          Move(i, IngestAfterBroadcast(i, r), Inbound("chunk", received[i] + 1, FALSE))
    /\ UNCHANGED <<ticks, calls>>

IngestBroadcastResume(i) ==
    /\ pc[i] = "bcast"
    /\ \E r \in BroadcastResume(World, frame[i]) :
          Move(i, IngestAfterBroadcast(i, r),
               IF IngestAfterBroadcast(i, r).pc = "receive" THEN NoInbound ELSE handling[i])
    /\ UNCHANGED <<received, ticks, calls>>

(* ------------------------ _metrics_update_loop ------------------------ *)
\* Where the loop is after its broadcast_to_dashboard: asyncio.sleep(5) after
\* a return, the end of the coroutine after "except Exception".
TelemetryAfterBroadcast(r) ==
    IF r.kind = "suspend" THEN Result(r.w, r.frame, "send")
    ELSE IF r.kind = "return" THEN Result(r.w, NoFrame, "sleep")
    ELSE Result(r.w, NoFrame, "done")

\* The end of a cancelled task, which the manager no longer refers to.
Collected(w, t) == [w EXCEPT !.cancelled = @ \ {t}]

\* A task that was cancelled gets CancelledError at the await it is suspended
\* in (or before its first statement); CancelledError is no Exception, so only
\* "except asyncio.CancelledError" of the loop catches it.
\* CancelledError swallowed by a handler for Exception (as before Python 3.8)
CancelDelivered_Swallowed(t) == FALSE

CancelDelivered(t) == t \in cancelled

\* The first iteration of a new task, or the next one after the sleep.
TelemetryIterate(t) ==
    /\ tasks[t] \in {"ready", "sleep"}
    /\ ~CancelDelivered(t)
    /\ Events < MaxEvents
    /\ ticks' = ticks + 1
    /\ \E u \in Utilizations :
          \E r \in broadcast_to_dashboard(update_system_metrics(World, u),
                      SystemStatusMsg(update_system_metrics(World, u))) :
             TaskMove(t, TelemetryAfterBroadcast(r))
    /\ UNCHANGED <<received, calls>>

TelemetryBroadcastResume(t) ==
    /\ tasks[t] = "send"
    /\ ~CancelDelivered(t)
    /\ \E r \in BroadcastResume(World, frame[t]) : TaskMove(t, TelemetryAfterBroadcast(r))
    /\ UNCHANGED <<received, ticks, calls>>

TelemetryCancelled(t) ==
    /\ tasks[t] \in {"ready", "send", "sleep"}
    /\ CancelDelivered(t)
    /\ TaskMove(t, Result(Collected(World, t), NoFrame, "none"))
    /\ UNCHANGED <<received, ticks, calls>>

(* ------- callers outside the session handlers (the HTTP routes) ------- *)
\* A caller of broadcast or update_speaker_recognition lets an exception pass.
ApiAfterBroadcast(r) ==
    IF r.kind = "suspend" THEN Result(r.w, r.frame, "bcast")
    ELSE Result(r.w, NoFrame, "idle")

EventMsg == Msg("event", NoStatus, 0, FALSE)

\* {"type": "speaker_recognized", ..., "timestamp": ...timestamp.isoformat()}
SpeakerRecognizedMsg == Msg("speaker_recognized", NoStatus, 0, FALSE)

\* update_speaker_recognition up to its broadcast_to_dashboard.
SetCurrentSpeaker(w) == [w EXCEPT !.dashboard_data.current_speaker = RecognitionResult]

\* simulate_recognition / demo_background_task: update_speaker_recognition
ApiRecognition ==
    /\ pc[Api] = "idle"
    /\ Events < MaxEvents
    /\ calls' = calls + 1
    /\ \E r \in broadcast_to_dashboard(SetCurrentSpeaker(World), SpeakerRecognizedMsg) :
          Move(Api, ApiAfterBroadcast(r), NoInbound)
    /\ UNCHANGED <<received, ticks>>

ApiBroadcast ==
    /\ pc[Api] = "idle"
    /\ Events < MaxEvents
    /\ calls' = calls + 1
    /\ \E r \in broadcast(World, EventMsg) : Move(Api, ApiAfterBroadcast(r), NoInbound)
    /\ UNCHANGED <<received, ticks>>

ApiBroadcastResume ==
    /\ pc[Api] = "bcast"
    /\ \E r \in BroadcastResume(World, frame[Api]) :
          Move(Api, ApiAfterBroadcast(r), NoInbound)
    /\ UNCHANGED <<received, ticks, calls>>

(* ------------------ audio_processor.py: AudioProcessor ---------------- *)
Abs(n) == IF n < 0 THEN -n ELSE n
RECURSIVE GCD(_, _)
GCD(a, b) == IF b = 0 THEN a ELSE GCD(b, a % b)

SAMPLE_RATE == 16000
CHUNK_SIZE == 1024
frame_duration == 20     \* ms
\* int(settings.SAMPLE_RATE * frame_duration / 1000) * 2, in bytes
frame_size == ((SAMPLE_RATE * frame_duration) \div 1000) * 2

MaxChunks == 2           \* calls of the audio pipeline in one run

\* what self.vad.is_speech does with one sub-frame
Verdicts == {"speech", "silence", "error"}
\* byte lengths of the chunks handed to the pipeline
ChunkLengths == {0, 1, 640, 2046, 2048, 2560}
\* A chunk: its length in bytes, and for each of its complete sub-frames what
\* the classifier does with the bytes of that sub-frame.
Chunks ==
    UNION {[len : {n}, verdicts : [1..(n \div frame_size) -> Verdicts]] : n \in ChunkLengths}

\* AudioProcessor.__init__
NewProcessor ==
    [vad |-> None, feature_extractor |-> None, inference_engine |-> None,
     is_initialized |-> FALSE]

\* initialize: the three components are built in turn and is_initialized is set
\* last; an exception of a constructor is re-raised and leaves what was built.
InitializeFailures == {"none", "Vad", "FeatureExtractor"}
initialize(p, failure) ==
    IF failure = "Vad" THEN p
    ELSE IF failure = "FeatureExtractor" THEN [p EXCEPT !.vad = "Vad"]
    ELSE [vad |-> "Vad", feature_extractor |-> "FeatureExtractor",
          inference_engine |-> "TFLiteInferenceEngine", is_initialized |-> TRUE]

\* cleanup
cleanup(p) == NewProcessor

\* np.frombuffer(audio_data, dtype=np.int16) raises ValueError unless the buffer
\* is a whole number of 2-byte samples
Decodes(chunk) == chunk.len % 2 = 0
\* len(audio_float)
DecodedLength(chunk) == chunk.len \div 2

\* self.vad.is_speech(frame, ...) on the sub-frame that starts at k * frame_size;
\* without a classifier, self.vad is None and the call raises AttributeError
is_speech(p, chunk, k) == IF p.vad = None THEN "error" ELSE chunk.verdicts[k + 1]

\* the sub-frames "for i in range(0, len(audio_data) - frame_size, frame_size)"
\* visits, as i = k * frame_size
RangeFrames(len) == {k \in 0..(len \div frame_size) : k * frame_size < len - frame_size}

\* "return voice_ratio > 0.3"
AboveRatio(voice_frames, total_frames) == 10 * voice_frames > 3 * total_frames

NoGate == [classified |-> {}, total_frames |-> 0, voice_frames |-> 0, decision |-> FALSE]

\* _detect_voice_activity.  The handler of the outer try is reached by no
\* chunk of bytes: every exception of the classifier is caught in the loop.
detect_voice_activity(p, chunk) ==
    LET frames == {k \in RangeFrames(chunk.len) : (k + 1) * frame_size <= chunk.len}
        counted == {k \in frames : is_speech(p, chunk, k) # "error"}
        voice == {k \in counted : is_speech(p, chunk, k) = "speech"}
    IN [classified |-> frames,
        total_frames |-> Cardinality(counted),
        voice_frames |-> Cardinality(voice),
        decision |-> IF Cardinality(counted) = 0 THEN FALSE
                     ELSE AboveRatio(Cardinality(voice), Cardinality(counted))]

\* outcomes of feature_extractor.extract_mfcc (it catches its own exceptions and
\* returns None) and of inference_engine.predict (it catches them too)
Features == {"features", "empty", None}
SpeakerResults ==
    {[speaker_name |-> "Unknown", confidence |-> 0],
     [speaker_name |-> "Speaker_1", confidence |-> 85]}

\* what a call returns, or that it raised
ChunkOutcome(type, has_voice, speaker, confidence, message) ==
    [type |-> type, has_voice |-> has_voice, speaker |-> speaker,
     confidence |-> confidence, message |-> message]
NoOutcome == ChunkOutcome(None, FALSE, None, 0, None)

\* a call: what came out, the gate's computation, and how often the gate, the
\* feature extraction and the inference were invoked
Called(outcome, gate, gates, extracts, predicts) ==
    [outcome |-> outcome, gate |-> gate, gates |-> gates,
     extracts |-> extracts, predicts |-> predicts]

\* "except Exception as e" of process_audio_chunk
OnException_Propagates(e) == ChunkOutcome("raised", FALSE, None, 0, e)
OnException(e) == ChunkOutcome("error", FALSE, None, 0, e)

\* "if len(audio_float) < settings.CHUNK_SIZE"
TooShort_EmptyOnly(chunk) == DecodedLength(chunk) = 0
TooShort(chunk) == DecodedLength(chunk) < CHUNK_SIZE

\* process_audio_chunk after the gate has decided
AfterGate_ExtractsAnyway(g, features, speaker_result) ==
    IF features = None \/ features = "empty" THEN Called(NoOutcome, g, 1, 1, 0)
    ELSE IF ~g.decision
    THEN Called(ChunkOutcome("audio_processed", FALSE, None, 0, None), g, 1, 1, 0)
    ELSE Called(ChunkOutcome("recognition_result", TRUE, speaker_result.speaker_name,
                         speaker_result.confidence, None), g, 1, 1, 1)
AfterGate(g, features, speaker_result) ==
    IF ~g.decision
    THEN Called(ChunkOutcome("audio_processed", FALSE, None, 0, None), g, 1, 0, 0)
    ELSE IF features = None \/ features = "empty" THEN Called(NoOutcome, g, 1, 1, 0)
    ELSE Called(ChunkOutcome("recognition_result", TRUE, speaker_result.speaker_name,
                         speaker_result.confidence, None), g, 1, 1, 1)

\* process_audio_chunk
process_audio_chunk(p, chunk, features, speaker_result) ==
    IF ~p.is_initialized THEN Called(NoOutcome, NoGate, 0, 0, 0)
    ELSE IF ~Decodes(chunk) THEN Called(OnException("ValueError"), NoGate, 0, 0, 0)
    ELSE IF TooShort(chunk) THEN Called(NoOutcome, NoGate, 0, 0, 0)
    ELSE AfterGate(detect_voice_activity(p, chunk), features, speaker_result)

\* A fraction num / den in lowest terms.
Fraction(num, den) ==
    LET g == GCD(num, den) IN [num |-> num \div g, den |-> den \div g]

\* processing_stats as __init__ makes it
NewStats ==
    [total_chunks_processed |-> 0, total_processing_time |-> 0,
     average_processing_time |-> Fraction(0, 1), voice_activity_ratio |-> Fraction(0, 1)]

\* time.time() - start_time, in milliseconds
ProcessingTimes == {1, 2}

\* _update_stats, with alpha = 0.1 = 1/10:
\* alpha * (1.0 if has_voice else 0.0) + (1 - alpha) * current_ratio
update_stats(stats, processing_time, has_voice) ==
    LET total_chunks == stats.total_chunks_processed + 1
        total_time == stats.total_processing_time + processing_time
        current_ratio == stats.voice_activity_ratio
    IN [total_chunks_processed |-> total_chunks,
        total_processing_time |-> total_time,
        average_processing_time |-> Fraction(total_time, total_chunks),
        voice_activity_ratio |->
            Fraction((IF has_voice THEN current_ratio.den ELSE 0) + 9 * current_ratio.num,
                     10 * current_ratio.den)]

\* the statistics after a call that updates them whenever the gate was asked
StatsAfter_EveryGatedChunk(stats, c, processing_time) ==
    IF c.gates = 1 THEN update_stats(stats, processing_time, c.gate.decision) ELSE stats
\* the statistics after a call of process_audio_chunk: _update_stats is called
\* between the return of predict and the return of the recognition result
StatsAfter(stats, c, processing_time) ==
    IF c.predicts = 1 THEN update_stats(stats, processing_time, TRUE) ELSE stats

NoCall == [op |-> "none"]
\* the record of a call: the processor it was made on, its input and what the
\* call before it returned
Record(op, chunk, c) ==
    [op |-> op, chunk |-> chunk, on |-> processor, outcome |-> c.outcome, gate |-> c.gate,
     gates |-> c.gates, extracts |-> c.extracts, predicts |-> c.predicts,
     previous |-> IF audio_call = NoCall THEN None ELSE audio_call.outcome.type]

Initialize ==
    /\ \E failure \in InitializeFailures : processor' = initialize(processor, failure)
    /\ UNCHANGED <<processed, audio_call, processing_stats>>
    /\ UNCHANGED <<manager_vars, engine_vars>>

Cleanup ==
    /\ processor' = cleanup(processor)
    /\ UNCHANGED <<processed, audio_call, processing_stats>>
    /\ UNCHANGED <<manager_vars, engine_vars>>

ProcessAudioChunk ==
    /\ processed < MaxChunks
    /\ \E chunk \in Chunks, features \in Features, speaker_result \in SpeakerResults :
          LET c == process_audio_chunk(processor, chunk, features, speaker_result)
          IN /\ audio_call' = Record("process_audio_chunk", chunk, c)
             /\ \E processing_time \in ProcessingTimes :
                   processing_stats' = StatsAfter(processing_stats, c, processing_time)
    /\ processed' = processed + 1
    /\ UNCHANGED processor
    /\ UNCHANGED <<manager_vars, engine_vars>>

\* the gate applied to a chunk on its own
DetectVoiceActivity ==
    /\ processed < MaxChunks
    /\ \E chunk \in Chunks :
          audio_call' = Record("_detect_voice_activity", chunk,
                               Called(NoOutcome, detect_voice_activity(processor, chunk), 1, 0, 0))
    /\ processed' = processed + 1
    /\ UNCHANGED <<processor, processing_stats>>
    /\ UNCHANGED <<manager_vars, engine_vars>>

(* --------------- tflite_inference.py: TFLiteInferenceEngine ----------- *)
MaxEngineOps == 4        \* calls of the inference engine in one run

\* Embeddings are vectors of a fixed dimension, here 2, with small integer
\* coordinates: two orthogonal ones, their diagonal, an opposite one and zero.
Vectors == {<<1, 0>>, <<0, 1>>, <<1, 1>>, <<-1, 0>>, <<0, 0>>}
ZeroVector == <<0, 0>>
Dot(a, b) == a[1] * b[1] + a[2] * b[2]
Add(a, b) == <<a[1] + b[1], a[2] + b[2]>>

\* The unit vector of a direction is written as the shortest integer vector of
\* that direction.  v / (np.linalg.norm(v) + 1e-8): the unit vector of v, and
\* the zero vector for the zero vector.
Normalize(v) ==
    IF v = ZeroVector THEN ZeroVector
    ELSE LET g == GCD(Abs(v[1]), Abs(v[2])) IN <<v[1] \div g, v[2] \div g>>

\* np.mean(np.stack(embeddings), axis=0): the sum over the number of vectors
RECURSIVE SumVectors(_)
SumVectors(embeddings) ==
    IF embeddings = <<>> THEN ZeroVector
    ELSE Add(Head(embeddings), SumVectors(Tail(embeddings)))
Mean(embeddings) == [num |-> SumVectors(embeddings), den |-> Len(embeddings)]

\* A cosine dot / sqrt(n2), kept exactly: its sign and the reduced fraction
\* num / den of its square.
Cosine(dot, n2) ==
    IF dot = 0 THEN [sign |-> 0, num |-> 0, den |-> 1]
    ELSE LET g == GCD(dot * dot, n2)
         IN [sign |-> IF dot > 0 THEN 1 ELSE -1, num |-> (dot * dot) \div g, den |-> n2 \div g]
Zero == Cosine(0, 1)     \* 0.0

\* np.dot of the two normalized vectors
Similarity(a, b) ==
    LET u == Normalize(a)
        v == Normalize(b)
    IN Cosine(Dot(u, v), Dot(u, u) * Dot(v, v))

\* s < t
Less(s, t) ==
    IF s.sign # t.sign THEN s.sign < t.sign
    ELSE IF s.sign = 1 THEN s.num * t.den < t.num * s.den
    ELSE IF s.sign = -1 THEN s.num * t.den > t.num * s.den
    ELSE FALSE

\* "best_confidence < 0.7"
BelowThreshold(s) == s.sign <= 0 \/ 100 * s.num < 49 * s.den

SpeakerIds == {1, 2}
NoSpeakerId == -1        \* "speaker_id": None, and the id of a call that takes none
Names == {"Alice", "Bob"}
\* keys of the label table: integers, and the strings json.load makes of the
\* keys of speaker_labels.json
IntKey(id) == [type |-> "int", key |-> id]
StrKey(id) == [type |-> "str", key |-> id]
\* f"Speaker_{best_speaker_id}"
DefaultNames == <<"Speaker_1", "Speaker_2", "Speaker_3">>
DefaultLabel(id) == DefaultNames[id]

\* dict operations; a dict with insertion order is a sequence of items
Keys(d) == {d[n].id : n \in 1..Len(d)}
Item(d, id) == d[CHOOSE n \in 1..Len(d) : d[n].id = id]
SetItem_KeepExisting(d, id, embedding) ==
    IF id \in Keys(d) THEN d ELSE Append(d, [id |-> id, embedding |-> embedding])
SetItem(d, id, embedding) ==
    IF id \in Keys(d)
    THEN [n \in 1..Len(d) |-> IF d[n].id = id THEN [id |-> id, embedding |-> embedding] ELSE d[n]]
    ELSE Append(d, [id |-> id, embedding |-> embedding])
RECURSIVE DelItem(_, _)
DelItem(d, id) ==
    IF d = <<>> THEN <<>>
    ELSE IF Head(d).id = id THEN Tail(d)
    ELSE <<Head(d)>> \o DelItem(Tail(d), id)
\* the label table, whose order is never used, is a function
Put(labels, key, name) ==
    [k \in DOMAIN labels \cup {key} |-> IF k = key THEN name ELSE labels[k]]
Drop(labels, key) == [k \in DOMAIN labels \ {key} |-> labels[k]]
NoLabels == [k \in {} |-> "Unknown"]

\* TFLiteInferenceEngine.__init__
NewEngine ==
    [interpreter |-> None, speaker_labels |-> NoLabels, embedding_cache |-> <<>>,
     is_model_loaded |-> FALSE]

\* _create_dummy_model
DummyLabels ==
    [k \in {IntKey(n) : n \in 0..3} |-> IF k.key = 0 THEN "Unknown" ELSE DefaultLabel(k.key)]
create_dummy_model(e) == [e EXCEPT !.speaker_labels = DummyLabels, !.is_model_loaded = TRUE]

\* _load_speaker_labels: the content of speaker_labels.json as json.load returns
\* it, or the default table when there is no such file or it cannot be read
FileLabels == [k \in {StrKey(1)} |-> "Alice"]
UnknownOnly == [k \in {IntKey(0)} |-> "Unknown"]
load_speaker_labels(e, file) ==
    [e EXCEPT !.speaker_labels = IF file = "labels" THEN FileLabels ELSE UnknownOnly]

\* load_model.  What it meets on disk: no model file; a model the interpreter
\* cannot be built from, or cannot allocate; a model with or without labels.
ModelFiles == {"missing", "Interpreter raises", "allocate_tensors raises",
               "model", "model and labels"}
load_model(e, found) ==
    IF found = "missing" \/ found = "Interpreter raises" THEN create_dummy_model(e)
    ELSE IF found = "allocate_tensors raises"
    THEN create_dummy_model([e EXCEPT !.interpreter = "Interpreter"])
    ELSE [load_speaker_labels([e EXCEPT !.interpreter = "Interpreter"],
                              IF found = "model and labels" THEN "labels" ELSE "none")
            EXCEPT !.is_model_loaded = TRUE]

\* load_model fell back on the dummy model
Fallback(found) == found \notin {"model", "model and labels"}

\* is_loaded, and get_stats without the inference statistics
is_loaded(e) == e.is_model_loaded
get_stats(e) ==
    [model_loaded |-> e.is_model_loaded,
     enrolled_speakers |-> Len(e.embedding_cache),
     speaker_labels |-> e.speaker_labels]

\* the result of a call: the engine after it, what it returned, whether it raised
Returned(e, value, raised) == [engine |-> e, value |-> value, raised |-> raised]

\* enroll_speaker; embeddings[0] of an empty list raises IndexError, which the
\* method catches
\* two embeddings of different shapes: np.stack raises ValueError
Mismatched == {<< <<1, 0>>, <<1>> >>}
\* lists of none, one and two embeddings; the mean of two does not depend on
\* their order, so the second one is taken from two of the vectors
EmbeddingLists ==
    {<<>>} \cup {<<a>> : a \in Vectors}
        \cup {<<a, b>> : a \in Vectors, b \in {<<0, 1>>, <<-1, 0>>}}
        \cup Mismatched
\* np.stack accepts arrays of one shape
Stackable(embeddings) == \A n \in 1..Len(embeddings) : Len(embeddings[n]) = Len(embeddings[1])
\* the statements of the try block raise: nothing was stored yet
EnrollRaises(embeddings) ==
    embeddings = <<>> \/ (Len(embeddings) > 1 /\ ~Stackable(embeddings))

\* enroll_speaker that averages the cached embedding of the id in
enroll_speaker_RunningAverage(e, speaker_id, speaker_name, embeddings) ==
    IF EnrollRaises(embeddings) THEN Returned(e, FALSE, FALSE)
    ELSE LET all == IF speaker_id \in Keys(e.embedding_cache)
                    THEN <<Item(e.embedding_cache, speaker_id).embedding>> \o embeddings
                    ELSE embeddings
         IN Returned([e EXCEPT !.embedding_cache =
                                   SetItem(@, speaker_id, Normalize(Mean(all).num)),
                               !.speaker_labels = Put(@, IntKey(speaker_id), speaker_name)],
                     TRUE, FALSE)
\* enroll_speaker that updates the label table before it averages
enroll_speaker_LabelFirst(e, speaker_id, speaker_name, embeddings) ==
    IF EnrollRaises(embeddings)
    THEN Returned([e EXCEPT !.speaker_labels = Put(@, IntKey(speaker_id), speaker_name)],
                  FALSE, FALSE)
    ELSE Returned([e EXCEPT !.embedding_cache =
                                SetItem(@, speaker_id, Normalize(Mean(embeddings).num)),
                            !.speaker_labels = Put(@, IntKey(speaker_id), speaker_name)],
                  TRUE, FALSE)
\* enroll_speaker
enroll_speaker(e, speaker_id, speaker_name, embeddings) ==
    IF EnrollRaises(embeddings) THEN Returned(e, FALSE, FALSE)
    ELSE LET averaged == IF Len(embeddings) > 1 THEN Mean(embeddings).num
                         ELSE embeddings[1]
         IN Returned([e EXCEPT !.embedding_cache = SetItem(@, speaker_id, Normalize(averaged)),
                               !.speaker_labels = Put(@, IntKey(speaker_id), speaker_name)],
                     TRUE, FALSE)

\* remove_speaker without its two membership tests: del raises KeyError
remove_speaker_Unguarded(e, speaker_id) ==
    IF speaker_id \in Keys(e.embedding_cache) /\ IntKey(speaker_id) \in DOMAIN e.speaker_labels
    THEN Returned([e EXCEPT !.embedding_cache = DelItem(@, speaker_id),
                            !.speaker_labels = Drop(@, IntKey(speaker_id))], None, FALSE)
    ELSE Returned(e, None, TRUE)
\* remove_speaker that forgets the cache
remove_speaker_LabelOnly(e, speaker_id) ==
    Returned([e EXCEPT !.speaker_labels = Drop(@, IntKey(speaker_id))], None, FALSE)
\* remove_speaker
remove_speaker(e, speaker_id) ==
    Returned([e EXCEPT !.embedding_cache = IF speaker_id \in Keys(@)
                                           THEN DelItem(@, speaker_id) ELSE @,
                       !.speaker_labels = IF IntKey(speaker_id) \in DOMAIN @
                                          THEN Drop(@, IntKey(speaker_id)) ELSE @],
             None, FALSE)

\* cleanup
engine_cleanup(e) ==
    [e EXCEPT !.interpreter = None, !.embedding_cache = <<>>, !.is_model_loaded = FALSE]

\* a classification result
Classification(speaker_name, confidence, speaker_id) ==
    [speaker_name |-> speaker_name, confidence |-> confidence, speaker_id |-> speaker_id]

\* max(similarities.keys(), key=...): the scan keeps the item it holds unless
\* the next one is greater
Better_OrEqual(held, next) == ~Less(next, held)
Better(held, next) == Less(held, next)
RECURSIVE MaxScan(_, _, _)
MaxScan(similarities, held, n) ==
    IF n > Len(similarities) THEN held
    ELSE MaxScan(similarities,
                 IF Better(similarities[held].similarity, similarities[n].similarity)
                 THEN n ELSE held,
                 n + 1)

\* the result for a best similarity below the threshold
NearMiss_Zero(best_confidence) == Classification("Unknown", Zero, NoSpeakerId)
NearMiss(best_confidence) == Classification("Unknown", best_confidence, NoSpeakerId)

\* speaker_labels.get(best_speaker_id, f"Speaker_{best_speaker_id}")
GetLabel(labels, id) ==
    IF IntKey(id) \in DOMAIN labels THEN labels[IntKey(id)] ELSE DefaultLabel(id)

\* _classify_speaker
classify_speaker(e, embedding) ==
    IF Len(e.embedding_cache) = 0 THEN Classification("Unknown", Zero, NoSpeakerId)
    ELSE LET similarities ==
                 [n \in 1..Len(e.embedding_cache) |->
                     [id |-> e.embedding_cache[n].id,
                      similarity |-> Similarity(embedding, e.embedding_cache[n].embedding)]]
             best == similarities[MaxScan(similarities, 1, 2)]
         IN IF BelowThreshold(best.similarity) THEN NearMiss(best.similarity)
            ELSE Classification(GetLabel(e.speaker_labels, best.id), best.similarity, best.id)

\* the features given to predict: an array _prepare_input can pad or truncate,
\* or one on which its statements raise (a 1-dimensional array, say)
FeatureShapes == {"well-formed", "malformed"}
\* _prepare_input: it catches the exception and returns an input of zeros
prepare_input(features) == IF features = "malformed" THEN "zeros" ELSE "shaped"

\* the forward pass on that input: the embedding it gives, or that
\* set_tensor / invoke / get_tensor raise
ForwardPasses ==
    [raises : {FALSE}, embedding : Vectors] \cup {[raises |-> TRUE, embedding |-> ZeroVector]}

\* a result of predict: that of the classification, or Unknown with an error
Prediction(speaker_name, confidence, speaker_id, error) ==
    [speaker_name |-> speaker_name, confidence |-> confidence, speaker_id |-> speaker_id,
     error |-> error]

\* predict.  Without an interpreter the embedding is the random unit vector of
\* _dummy_inference, which never raises.
predict(e, input_data, forward) ==
    IF ~e.is_model_loaded THEN Prediction("Unknown", Zero, NoSpeakerId, "Model not loaded")
    ELSE IF e.interpreter # None /\ forward.raises
    THEN Prediction("Unknown", Zero, NoSpeakerId, "str(e)")
    ELSE LET speaker_result == classify_speaker(e, forward.embedding)
         IN Prediction(speaker_result.speaker_name, speaker_result.confidence,
                       speaker_result.speaker_id, None)

NoEngineCall == [op |-> "none"]
\* a call: its arguments, whether its speaker id was cached when it was made,
\* what it returned and whether it raised
EngineCall(op, id, name, given, embedding, value, raised) ==
    [op |-> op, id |-> id, name |-> name, given |-> given, embedding |-> embedding,
     cached |-> id \in Keys(engine.embedding_cache), value |-> value, raised |-> raised]

LoadModel ==
    /\ engine_ops < MaxEngineOps
    /\ \E found \in ModelFiles :
          /\ engine' = load_model(engine, found)
          /\ engine_call' = EngineCall("load_model", NoSpeakerId, None, found, None, None, FALSE)
    /\ engine_ops' = engine_ops + 1
    /\ UNCHANGED <<removed, manager_vars, audio_vars>>

EnrollSpeaker ==
    /\ engine_ops < MaxEngineOps
    /\ \E speaker_id \in SpeakerIds, speaker_name \in Names, embeddings \in EmbeddingLists :
          LET r == enroll_speaker(engine, speaker_id, speaker_name, embeddings)
          IN /\ engine' = r.engine
             /\ engine_call' = EngineCall("enroll_speaker", speaker_id, speaker_name, embeddings,
                                       None, r.value, r.raised)
             /\ removed' = IF r.value THEN removed \ {speaker_id} ELSE removed
    /\ engine_ops' = engine_ops + 1
    /\ UNCHANGED <<manager_vars, audio_vars>>

RemoveSpeaker ==
    /\ engine_ops < MaxEngineOps
    /\ \E speaker_id \in SpeakerIds :
          LET r == remove_speaker(engine, speaker_id)
          IN /\ engine' = r.engine
             /\ engine_call' = EngineCall("remove_speaker", speaker_id, None, None, None,
                                       r.value, r.raised)
             /\ removed' = IF r.raised THEN removed ELSE removed \cup {speaker_id}
    /\ engine_ops' = engine_ops + 1
    /\ UNCHANGED <<manager_vars, audio_vars>>

EngineCleanup ==
    /\ engine_ops < MaxEngineOps
    /\ engine' = engine_cleanup(engine)
    /\ engine_call' = EngineCall("cleanup", NoSpeakerId, None, None, None, None, FALSE)
    /\ engine_ops' = engine_ops + 1
    /\ UNCHANGED <<removed, manager_vars, audio_vars>>

Predict ==
    /\ engine_ops < MaxEngineOps
    /\ \E features \in FeatureShapes, forward \in ForwardPasses :
          /\ engine.interpreter = None => ~forward.raises /\ forward.embedding # ZeroVector
          /\ engine_call' = EngineCall("predict", NoSpeakerId, None,
                                       [features |-> features, raises |-> forward.raises],
                                       forward.embedding,
                                       predict(engine, prepare_input(features), forward), FALSE)
    /\ engine_ops' = engine_ops + 1
    /\ UNCHANGED <<engine, removed, manager_vars, audio_vars>>

\* enroll_speaker with one embedding, and at once the classification of that embedding
EnrollThenClassify ==
    /\ engine_ops + 2 <= MaxEngineOps
    /\ \E speaker_id \in SpeakerIds, speaker_name \in Names, embedding \in Vectors :
          LET r == enroll_speaker(engine, speaker_id, speaker_name, <<embedding>>)
          IN /\ engine' = r.engine
             /\ engine_call' = EngineCall("enroll_speaker, _classify_speaker", speaker_id,
                                          speaker_name, <<embedding>>, embedding,
                                          classify_speaker(r.engine, embedding), r.raised)
             /\ removed' = IF r.value THEN removed \ {speaker_id} ELSE removed
    /\ engine_ops' = engine_ops + 2
    /\ UNCHANGED <<manager_vars, audio_vars>>

ClassifySpeaker ==
    /\ engine_ops < MaxEngineOps
    /\ \E embedding \in Vectors :
          engine_call' = EngineCall("_classify_speaker", NoSpeakerId, None, None, embedding,
                                    classify_speaker(engine, embedding), FALSE)
    /\ engine_ops' = engine_ops + 1
    /\ UNCHANGED <<engine, removed, manager_vars, audio_vars>>

(* --------------------------- specification ---------------------------- *)
\* WebSocketManager.__init__, and every client still to be accepted.
Init ==
    /\ active_connections = {}
    /\ dashboard_connections = {}
    /\ client_info = [x \in {} |-> [messages_sent |-> 0, messages_received |-> 0]]
    /\ dashboard_data = [system_status |-> SystemMetrics(0), current_speaker |-> None]
    /\ metrics_update_task = None
    /\ tasks = [t \in TaskIds |-> "none"]
    /\ cancelled = {}
    /\ pc = [p \in Sessions \cup {Api} |-> IF p = Api THEN "idle" ELSE "connecting"]
    /\ frame = [p \in Procs |-> NoFrame]
    /\ failed = {}
    /\ failures = 0
    /\ first_sent = [s \in Sessions |-> NoMsg]
    /\ handling = [p \in Sessions \cup {Api} |-> NoInbound]
    /\ received = [s \in Sessions |-> 0]
    /\ ticks = 0
    /\ calls = 0
    /\ processor = NewProcessor
    /\ processed = 0
    /\ audio_call = NoCall
    /\ processing_stats = NewStats
    /\ engine = NewEngine
    /\ engine_ops = 0
    /\ engine_call = NoEngineCall
    /\ removed = {}

Next ==
    \/ \E o \in Observers :
          \/ AcceptDashboard(o)
          \/ ConnectDashboardResume(o)
          \/ ReceiveText(o)
          \/ ReplyResume(o)
          \/ ErrorResume(o)
          \/ ObserverBroadcastResume(o)
    \/ \E i \in Ingests :
          \/ AcceptAudio(i)
          \/ ConnectAudioResume(i)
          \/ ReceiveBytes(i)
          \/ IngestBroadcastResume(i)
    \/ \E s \in Sessions :
          \/ AcceptRaises(s)
          \/ ReceiveRaises(s)
    \/ \E t \in TaskIds :
          \/ TelemetryIterate(t)
          \/ TelemetryBroadcastResume(t)
          \/ TelemetryCancelled(t)
    \/ ApiBroadcast
    \/ ApiRecognition
    \/ ApiBroadcastResume

Spec == Init /\ [][Next]_vars

\* the audio pipeline on its own: the manager stays as constructed
(* --- update_system_metrics on its own, over every utilization --- *)
\* psutil.cpu_percent() and psutil.virtual_memory().percent, in whole percents
Percentages == 0..100
Larger(a, b) == IF a > b THEN a ELSE b

\* One run of update_system_metrics: the status tests read
\* "cpu_percent > t or memory.percent > t", which is "the larger one > t".
UpdateSystemMetrics ==
    /\ \E cpu_percent \in Percentages, memory_percent \in Percentages :
          dashboard_data' =
              update_system_metrics(World, Larger(cpu_percent, memory_percent)).dashboard_data
    /\ UNCHANGED <<active_connections, dashboard_connections, client_info,
                   metrics_update_task, tasks, cancelled, pc, frame, failed, failures,
                   first_sent, handling, received, ticks, calls>>
    /\ UNCHANGED subsystems

MetricsNext == UpdateSystemMetrics
MetricsSpec == Init /\ [][MetricsNext]_vars

AudioNext ==
    \/ Initialize
    \/ Cleanup
    \/ ProcessAudioChunk
    \/ DetectVoiceActivity

AudioSpec == Init /\ [][AudioNext]_vars

\* the inference engine on its own
EngineNext ==
    \/ LoadModel
    \/ EnrollSpeaker
    \/ RemoveSpeaker
    \/ EngineCleanup
    \/ ClassifySpeaker
    \/ Predict
    \/ EnrollThenClassify

EngineSpec == Init /\ [][EngineNext]_vars


(* ------------------------------ claims -------------------------------- *)
Registered == active_connections \cup dashboard_connections

Alive == {"ready", "send", "sleep"}

\* No telemetry task is left to run: the manager holds no task and every task
\* that has not finished has been cancelled.
NoTaskLeft ==
    /\ metrics_update_task = None
    /\ \A t \in TaskIds : tasks[t] \in Alive => t \in cancelled

\* C1: whenever both membership sets are empty, the manager holds no telemetry
\* task and no task is left running uncancelled.
C1_NoTaskWithoutSessions == Registered = {} => NoTaskLeft

\* C1 witness: the last session has left and its disconnect cancelled the task.
C1_Witness ==
    /\ Registered = {}
    /\ cancelled # {}
    /\ \E s \in Sessions : pc[s] = "done"

\* C2: whenever a session is registered and no connect call is in progress, the
\* telemetry task is running.
C2_TaskRunsWhileRegistered ==
    (Registered # {} /\ \A s \in Sessions : pc[s] # "connect_send")
        => /\ metrics_update_task # None
           /\ tasks[metrics_update_task] \in Alive

\* A step that creates a telemetry task / that cancels one.
TaskStarted == \E t \in TaskIds : tasks[t] = "none" /\ tasks'[t] = "ready"

TaskCancelled == \E t \in TaskIds : t \notin cancelled /\ t \in cancelled'

\* C3: the task is started only while the total session count is 1 (by the
\* connect that took it from 0 to 1) and cancelled only when the count goes
\* from 1 to 0; at most one task that has not been cancelled exists.
C3_StartAndCancelOnTransitions ==
    [][/\ TaskStarted => Cardinality(Registered') = 1
       /\ TaskCancelled => (Cardinality(Registered) >= 1 /\ Registered' = {})
       /\ Cardinality({t \in TaskIds : tasks'[t] \in Alive /\ t \notin cancelled'}) <= 1
      ]_vars


\* Process p hands a message to send_text in this step: it ends the step
\* suspended in a send it was not suspended in before.
Sends(p) == frame'[p] # frame[p] /\ frame'[p].kind # "none"

BroadcastKinds == {"observers", "all"}

\* The broadcast process p is suspended in ends in this step, by returning or
\* by an exception other than the cancellation of p.
Completes(p) ==
    /\ frame[p].kind \in BroadcastKinds
    /\ frame'[p].kind \notin BroadcastKinds
    /\ p \notin cancelled

\* The sessions whose send raised in the broadcast of frame f.
FailedOn(f) == f.disc \cup (IF f.ok THEN {} ELSE {f.cur})

\* The number of send_text calls the broadcast of frame f made on session s.
Attempts(f, s) == f.delivered[s] + (IF s \in FailedOn(f) THEN 1 ELSE 0)

\* C4 as stated: disconnecting the last observer session cancels the telemetry
\* task.
C4_LastObserverCancels ==
    [][(dashboard_connections # {} /\ dashboard_connections' = {}) => NoTaskLeft']_vars

\* C4 amended: disconnecting the last observer session while no ingest session
\* is registered cancels the telemetry task; a cancelled task sends nothing
\* more, and its next step is its end.
C4_LastSessionCancels ==
    [][/\ (dashboard_connections # {} /\ dashboard_connections' = {}
              /\ active_connections' = {}) => NoTaskLeft'
       /\ \A t \in TaskIds :
             t \in cancelled => /\ ~Sends(t)
                                /\ tasks'[t] # tasks[t] => tasks'[t] = "none"
      ]_vars

\* C4 witness: the last observer has gone, no ingest session is registered, and
\* the task was cancelled while suspended in a send of its broadcast.
C4_Witness ==
    /\ Registered = {}
    /\ \E o \in Observers : pc[o] = "done"
    /\ \E t \in cancelled : tasks[t] = "send"

\* C5: when a broadcast ends, every session it began with whose send did not
\* raise (and which is still registered) was sent the message exactly once,
\* no session whose send raised is still registered, and the broadcast removed
\* no other session.
C5_BroadcastDeliversAndReclaims ==
    [][\A p \in Procs :
          Completes(p) =>
             /\ \A s \in (frame[p].start \cap Registered') \ FailedOn(frame[p]) :
                   frame[p].delivered[s] = 1
             /\ Registered' \cap FailedOn(frame[p]) = {}
             /\ (Registered \ Registered') \subseteq FailedOn(frame[p])
      ]_vars

\* C6: a session whose endpoint handler has ended is in neither membership set
\* and has no client_info entry.
C6_EndedSessionNotRegistered ==
    \A s \in Sessions :
       pc[s] = "done" => /\ s \notin active_connections
                         /\ s \notin dashboard_connections
                         /\ s \notin DOMAIN client_info

\* C6 witness: an observer and an ingest session that were open have ended,
\* the observer after its transport failed on a send.
C6_Witness ==
    /\ \E o \in Observers : pc[o] = "done" /\ first_sent[o] # NoMsg /\ failures > 0
    /\ \E i \in Ingests : pc[i] = "done" /\ first_sent[i] # NoMsg

\* C7: the first message handed to an observer session is the dashboard_data
\* message with the snapshot of that moment, sent in the step that registers
\* the session, so that no broadcast can reach the session before it.
C7_SnapshotFirst ==
    [][\A o \in Observers :
          (first_sent[o] = NoMsg /\ first_sent'[o] # NoMsg) =>
             /\ first_sent'[o].type = "dashboard_data"
             /\ first_sent'[o].status = dashboard_data.system_status
             /\ first_sent'[o].speaker = dashboard_data.current_speaker
             /\ pc[o] = "connecting"
             /\ o \notin dashboard_connections
             /\ o \in dashboard_connections'
      ]_vars

\* C8: an observers-only broadcast sends to no ingest session and, by its end,
\* to every observer session registered from its start to its end; a broadcast
\* to all calls send_text exactly once on every session it began with.
C8_AudienceReceives ==
    [][\A p \in Procs :
          /\ (Sends(p) /\ frame'[p].kind = "observers") => frame'[p].cur \in Observers
          /\ (Completes(p) /\ frame[p].kind = "observers") =>
                \A s \in frame[p].start \cap dashboard_connections' :
                   Attempts(frame[p], s) >= 1
          /\ (Completes(p) /\ frame[p].kind = "all") =>
                \A s \in frame[p].start : Attempts(frame[p], s) = 1
      ]_vars

\* C9: an ingest session receives its next chunk only when the broadcast made
\* for the previous chunk has ended, and every audio_data message it sends is
\* the one made for the chunk it received last and goes to a registered
\* observer: the events of one session are sent in receipt order.
C9_ChunksInReceiptOrder ==
    [][\A i \in Ingests :
          /\ received'[i] # received[i] =>
                (frame[i].kind = "none" /\ received'[i] = received[i] + 1)
          /\ (Sends(i) /\ frame'[i].kind = "observers") =>
                /\ frame'[i].msg = Msg("audio_data", NoStatus, received'[i], FALSE)
                /\ frame'[i].cur \in dashboard_connections
      ]_vars

\* C9 witness: the event of the second chunk is being sent to an observer.
C9_Witness ==
    \E i \in Ingests :
       /\ received[i] = 2
       /\ frame[i].kind = "observers"
       /\ frame[i].cur \in Observers
       /\ frame[i].ok


\* The first step of the handling of an inbound message of observer o follows
\* the dispatch table of handle_message; only o's own send changes.
Dispatched(o) ==
    /\ \A q \in Procs \ {o} : frame'[q] = frame[q]
    /\ handling'[o].type \in {"ping", "request_dashboard_data", "request_metrics_update"}
          => Registered' = Registered
    /\ CASE handling'[o].type = "ping" ->
               /\ frame'[o].kind = "client"
               /\ frame'[o].cur = o
               /\ frame'[o].msg = Msg("pong", NoStatus, handling'[o].arg, FALSE)
               /\ dashboard_data' = dashboard_data
         [] handling'[o].type = "request_dashboard_data" ->
               /\ frame'[o].kind = "client"
               /\ frame'[o].cur = o
               /\ frame'[o].msg.type = "dashboard_data"
               /\ frame'[o].msg.status = dashboard_data.system_status
               /\ frame'[o].msg.speaker = dashboard_data.current_speaker
               /\ dashboard_data' = dashboard_data
         [] handling'[o].type = "request_metrics_update" ->
               /\ frame'[o].kind = "client"
               /\ frame'[o].cur = o
               /\ frame'[o].msg = Msg("system_status", dashboard_data'.system_status, 0, FALSE)
         [] handling'[o].type = "toggle_recognition" ->
               /\ frame'[o].kind = "observers"
               /\ frame'[o].start = dashboard_connections
               /\ frame'[o].msg = Msg("recognition_status", NoStatus, 0, handling'[o].paused)
               /\ dashboard_data' = dashboard_data
         [] handling'[o].type = "invalid_json" -> TRUE
         [] OTHER ->  \* any other type: nothing is sent, nothing changes
               /\ frame'[o].kind = "none"
               /\ dashboard_data' = dashboard_data
               /\ Registered' = Registered
               /\ metrics_update_task' = metrics_update_task
               /\ tasks' = tasks

\* The later steps: a reply is one message; the re-broadcast of a toggle keeps
\* its message, goes to observers only and changes no snapshot.
DispatchContinues(o) ==
    /\ pc[o] = "reply_send" => ~Sends(o)
    /\ (pc[o] = "bcast" /\ frame'[o] # frame[o]) =>
          /\ dashboard_data' = dashboard_data
          /\ frame'[o].kind = "observers" =>
                (frame'[o].msg = frame[o].msg /\ frame'[o].cur \in Observers)

\* The re-broadcast of a toggle ends with every observer that was registered
\* from its start to its end sent the recognition_status, and nothing else sent.
ToggleReachesAll(o) ==
    (pc[o] = "bcast" /\ Completes(o)) =>
       /\ \A s \in frame[o].start \cap dashboard_connections' :
             Attempts(frame[o], s) >= 1
       /\ frame'[o].kind = "none"

\* C10: inbound observer messages follow the dispatch table: ping -> one pong
\* with the same timestamp to the sender; request_dashboard_data -> one
\* dashboard_data to the sender; request_metrics_update -> refresh, then one
\* system_status to the sender; toggle_recognition -> recognition_status with
\* the same paused value to all observers, no server-side state changed; any
\* other type -> no message and no state change.
C10_DispatchTable ==
    [][\A o \in Observers :
          /\ received'[o] # received[o] => Dispatched(o)
          /\ DispatchContinues(o)
          /\ ToggleReachesAll(o)
      ]_vars

\* C11: a step in which the accept of a new session fails registers nothing and
\* leaves the membership sets, client_info, the snapshot and the telemetry task
\* (the manager's handle, every task's position, the cancellations) unchanged.
C11_FailedAcceptChangesNothing ==
    [][\A s \in Sessions :
          (pc[s] = "connecting" /\ pc'[s] = "done") =>
             /\ s \notin Registered'
             /\ s \notin DOMAIN client_info'
             /\ UNCHANGED <<active_connections, dashboard_connections, client_info,
                            dashboard_data, metrics_update_task, tasks, cancelled>>
      ]_vars

\* C11 witness: the accept of a session failed while another session was
\* registered and the telemetry task was alive.
C11_Witness ==
    /\ \E s \in Sessions : pc[s] = "done" /\ first_sent[s] = NoMsg /\ s \notin failed
    /\ Registered # {}
    /\ metrics_update_task # None
    /\ tasks[metrics_update_task] \in Alive

(* ------------------- claims about the audio pipeline ------------------ *)
\* the last call was process_audio_chunk
Processed == audio_call.op = "process_audio_chunk"

\* C12: whenever the gate classified the chunk of a process_audio_chunk call as
\* no voice, the call returned an outcome with has_voice = false and invoked
\* neither feature extraction nor inference.
C12_NoVoiceSkipsExtraction ==
    (Processed /\ audio_call.gates = 1 /\ ~audio_call.gate.decision) =>
        /\ audio_call.outcome.type # None
        /\ audio_call.outcome.has_voice = FALSE
        /\ audio_call.extracts = 0
        /\ audio_call.predicts = 0

\* C12 witness: a chunk long enough whose sub-frames the gate classified, none as speech.
C12_Witness ==
    /\ Processed
    /\ audio_call.gates = 1
    /\ ~audio_call.gate.decision
    /\ audio_call.gate.total_frames > 0
    /\ audio_call.outcome.type = "audio_processed"

\* C13: a chunk that decodes to fewer than CHUNK_SIZE samples (the empty chunk
\* included), and any chunk given to a processor that is not initialized, makes
\* process_audio_chunk return None without invoking the gate, the feature
\* extraction or the inference.
C13_ShortChunkGivesNothing ==
    (/\ Processed
     /\ \/ ~audio_call.on.is_initialized
        \/ Decodes(audio_call.chunk) /\ DecodedLength(audio_call.chunk) < CHUNK_SIZE) =>
        /\ audio_call.outcome = NoOutcome
        /\ audio_call.gates = 0
        /\ audio_call.extracts = 0
        /\ audio_call.predicts = 0

\* C13 witness: an initialized processor was given a chunk of CHUNK_SIZE - 1
\* samples, all of them speech.
C13_Witness ==
    /\ Processed
    /\ audio_call.on.is_initialized
    /\ DecodedLength(audio_call.chunk) = CHUNK_SIZE - 1
    /\ \A k \in DOMAIN audio_call.chunk.verdicts : audio_call.chunk.verdicts[k] = "speech"
    /\ audio_call.outcome = NoOutcome

\* C14: a process_audio_chunk call returns None or an outcome of type
\* audio_processed, recognition_result or error; a chunk that cannot be decoded
\* gives an error outcome with a message and leaves the processor as it was,
\* initialized; and the call after an error outcome runs the pipeline as usual.
C14_ErrorsBecomeOutcomes ==
    [][(processed' # processed /\ audio_call'.op = "process_audio_chunk") =>
          /\ audio_call'.outcome.type \in {None, "audio_processed", "recognition_result", "error"}
          /\ (processor.is_initialized /\ ~Decodes(audio_call'.chunk)) =>
                /\ audio_call'.outcome.type = "error"
                /\ audio_call'.outcome.message # None
                /\ processor' = processor
                /\ processor'.is_initialized
          /\ (/\ audio_call'.previous = "error"
              /\ processor.is_initialized
              /\ Decodes(audio_call'.chunk)
              /\ DecodedLength(audio_call'.chunk) >= CHUNK_SIZE) =>
                /\ audio_call'.gates = 1
                /\ audio_call'.outcome.type \in {None, "audio_processed", "recognition_result"}
      ]_vars

\* C14 witness: the call after one that returned an error outcome recognized a speaker.
C14_Witness ==
    /\ Processed
    /\ audio_call.previous = "error"
    /\ audio_call.outcome.type = "recognition_result"
    /\ processor.is_initialized

\* the speech sub-frames among the first n sub-frames of a chunk
SpeechFrames(chunk, n) == {k \in 1..n : chunk.verdicts[k] = "speech"}

\* C15: with a classifier that answers on every sub-frame, the gate classifies
\* floor(len / frame_size) sub-frames and decides true iff there is at least one
\* and more than 0.3 of them are speech.
C15_GateClassifiesEveryCompleteFrame ==
    (/\ audio_call # NoCall
     /\ audio_call.gates = 1
     /\ audio_call.on.vad # None
     /\ \A k \in DOMAIN audio_call.chunk.verdicts : audio_call.chunk.verdicts[k] # "error") =>
        LET n == audio_call.chunk.len \div frame_size
            speech == Cardinality(SpeechFrames(audio_call.chunk, n))
        IN /\ Cardinality(audio_call.gate.classified) = n
           /\ audio_call.gate.decision <=> (n > 0 /\ 10 * speech > 3 * n)

\* C16: a sub-frame on which the classifier errors is counted neither as speech
\* nor in the total while the others are; and when the classifier is absent, or
\* errors on every sub-frame the gate gave it, the gate decides true.
C16_GateFailsOpen ==
    (audio_call # NoCall /\ audio_call.gates = 1) =>
        LET visited == audio_call.gate.classified
            answered == {k \in visited :
                            is_speech(audio_call.on, audio_call.chunk, k) # "error"}
        IN /\ audio_call.gate.total_frames = Cardinality(answered)
           /\ audio_call.gate.voice_frames <= audio_call.gate.total_frames
           /\ (visited # {} /\ answered = {}) => audio_call.gate.decision

(* ------------------ claims about the inference engine ----------------- *)
\* the last call was a classification; the engine is as it was during the call
Classified == engine_call.op = "_classify_speaker"

\* the similarity of the classified embedding to the n-th cached profile
SimilarityTo(n) == Similarity(engine_call.embedding, engine.embedding_cache[n].embedding)
Profiles == 1..Len(engine.embedding_cache)
\* the greatest of them
MaxSimilarity == CHOOSE s \in {SimilarityTo(n) : n \in Profiles} :
                    \A n \in Profiles : ~Less(s, SimilarityTo(n))
Threshold == Cosine(7, 100)      \* 0.7

\* C17: a classification against an empty cache returns Unknown, 0.0 and no id;
\* otherwise, with s the greatest similarity to a cached profile, it returns
\* Unknown, s and no id when s < 0.7, and when s >= 0.7 it returns s, the id of
\* a profile whose similarity is s and the label the table holds for that id
\* (Speaker_<id> when the table holds none).
C17_ClassificationResult ==
    Classified =>
        LET r == engine_call.value
        IN IF Profiles = {} THEN r = [speaker_name |-> "Unknown", confidence |-> Zero,
                                      speaker_id |-> NoSpeakerId]
           ELSE IF Less(MaxSimilarity, Threshold)
           THEN r = [speaker_name |-> "Unknown", confidence |-> MaxSimilarity,
                     speaker_id |-> NoSpeakerId]
           ELSE /\ r.confidence = MaxSimilarity
                /\ \E n \in Profiles : /\ engine.embedding_cache[n].id = r.speaker_id
                                       /\ SimilarityTo(n) = MaxSimilarity
                /\ r.speaker_name =
                      IF IntKey(r.speaker_id) \in DOMAIN engine.speaker_labels
                      THEN engine.speaker_labels[IntKey(r.speaker_id)]
                      ELSE DefaultNames[r.speaker_id]

\* C17 witness: against two cached profiles, one a near miss, the classification
\* returned the enrolled name of the other with a similarity below 1.
C17_Witness ==
    /\ Classified
    /\ Len(engine.embedding_cache) = 2
    /\ engine_call.value.speaker_id # NoSpeakerId
    /\ engine_call.value.speaker_name \in Names
    /\ engine_call.value.confidence # Cosine(1, 1)
    /\ \E n \in Profiles : Less(Zero, SimilarityTo(n)) /\ Less(SimilarityTo(n), Threshold)

\* C18: a classification that selects a profile selects the first profile, in
\* the iteration order of the cache, among those of greatest similarity.
C18_FirstOfTheBest ==
    (Classified /\ engine_call.value.speaker_id # NoSpeakerId) =>
        \E n \in Profiles :
            /\ engine.embedding_cache[n].id = engine_call.value.speaker_id
            /\ SimilarityTo(n) = MaxSimilarity
            /\ \A m \in 1..(n - 1) : SimilarityTo(m) # MaxSimilarity

\* C18 witness: speaker 2 was enrolled before speaker 1, both profiles are
\* equally similar to the embedding, and speaker 2 was selected.
C18_Witness ==
    /\ Classified
    /\ Len(engine.embedding_cache) = 2
    /\ engine.embedding_cache[1].id = 2
    /\ SimilarityTo(1) = SimilarityTo(2)
    /\ engine.embedding_cache[1].embedding # engine.embedding_cache[2].embedding
    /\ engine_call.value.speaker_id = 2

\* C19: the speaker id of a classification result is a key of the embedding
\* cache, and is no id that was removed and not enrolled again.
C19_SelectedIdIsCached ==
    (Classified /\ engine_call.value.speaker_id # NoSpeakerId) =>
        /\ engine_call.value.speaker_id \in Keys(engine.embedding_cache)
        /\ engine_call.value.speaker_id \notin removed

\* C19 witness: after the removal of a speaker a classification selected another one.
C19_Witness ==
    /\ Classified
    /\ removed # {}
    /\ engine_call.value.speaker_id # NoSpeakerId
    /\ engine_ops >= 4

\* C20: remove_speaker(id) raises nothing, leaves the cache without id and the
\* label table without the entry of id, keeps every other cache item (and their
\* order) and every other label, and changes nothing else of the engine.
C20_RemoveSpeakerFrame ==
    [][(engine_ops' # engine_ops /\ engine_call'.op = "remove_speaker") =>
          LET id == engine_call'.id
          IN /\ ~engine_call'.raised
             /\ engine'.embedding_cache =
                   SelectSeq(engine.embedding_cache, LAMBDA item : item.id # id)
             /\ DOMAIN engine'.speaker_labels = DOMAIN engine.speaker_labels \ {IntKey(id)}
             /\ \A k \in DOMAIN engine'.speaker_labels :
                   engine'.speaker_labels[k] = engine.speaker_labels[k]
             /\ engine'.interpreter = engine.interpreter
             /\ engine'.is_model_loaded = engine.is_model_loaded
             /\ (id \notin Keys(engine.embedding_cache)
                   /\ IntKey(id) \notin DOMAIN engine.speaker_labels) => engine' = engine
      ]_vars

\* C20 witness: a cached speaker was removed and another one is still cached and labelled.
C20_Witness ==
    /\ engine_call.op = "remove_speaker"
    /\ engine_call.cached
    /\ engine_call.id \notin Keys(engine.embedding_cache)
    /\ \E other \in Keys(engine.embedding_cache) : IntKey(other) \in DOMAIN engine.speaker_labels

\* the step is a call of enroll_speaker
Enrolled == engine_ops' # engine_ops /\ engine_call'.op = "enroll_speaker"
\* u is the unit vector of v, in the notation of shortest integer vectors: the
\* two are parallel and point the same way, and u cannot be shortened
UnitOf(u, v) ==
    IF v = ZeroVector THEN u = ZeroVector
    ELSE /\ u[1] * v[2] = u[2] * v[1]
         /\ u[1] * v[1] + u[2] * v[2] > 0
         /\ \A d \in 2..3 : u[1] % d # 0 \/ u[2] % d # 0

\* C21: enroll_speaker(id, name, embeddings) with one or more embeddings of one
\* shape returns true; afterwards the cache has exactly one item for id, the
\* unit vector of the mean of the embeddings of this call, the label table maps
\* id to name, and every other cache item and label is as before.
C21_EnrollStoresNormalizedMean ==
    [][(Enrolled /\ ~EnrollRaises(engine_call'.given)) =>
          LET id == engine_call'.id
              before == engine.embedding_cache
              after == engine'.embedding_cache
          IN /\ engine_call'.value = TRUE
             /\ Cardinality({n \in 1..Len(after) : after[n].id = id}) = 1
             /\ UnitOf(Item(after, id).embedding, SumVectors(engine_call'.given))
             /\ engine'.speaker_labels[IntKey(id)] = engine_call'.name
             /\ Keys(after) = Keys(before) \cup {id}
             /\ \A other \in Keys(before) \ {id} : Item(after, other) = Item(before, other)
             /\ DOMAIN engine'.speaker_labels = DOMAIN engine.speaker_labels \cup {IntKey(id)}
             /\ \A k \in DOMAIN engine.speaker_labels \ {IntKey(id)} :
                   engine'.speaker_labels[k] = engine.speaker_labels[k]
      ]_vars

\* C21 witness: a cached speaker was enrolled again with two embeddings, under
\* a new name, while another speaker is cached.
C21_Witness ==
    /\ engine_call.op = "enroll_speaker"
    /\ engine_call.cached
    /\ engine_call.value = TRUE
    /\ Len(engine_call.given) = 2
    /\ Len(engine.embedding_cache) = 2
    /\ engine.speaker_labels[IntKey(engine_call.id)] = engine_call.name

\* C30: enroll_speaker with no embedding, or with embeddings that cannot be
\* stacked, returns false, raises nothing and leaves the engine as it was.
C30_FailedEnrollChangesNothing ==
    [][(Enrolled /\ EnrollRaises(engine_call'.given)) =>
          /\ engine_call'.value = FALSE
          /\ ~engine_call'.raised
          /\ engine'.embedding_cache = engine.embedding_cache
          /\ engine'.speaker_labels = engine.speaker_labels
          /\ engine' = engine
      ]_vars

\* C30 witness: an enrollment with embeddings of two shapes was refused while
\* a speaker was cached.
C30_Witness ==
    /\ engine_call.op = "enroll_speaker"
    /\ engine_call.given \in Mismatched
    /\ engine_call.value = FALSE
    /\ Len(engine.embedding_cache) > 0

\* C22: load_model raises nothing, and after a load that fell back on the dummy
\* model the status flags of is_loaded and get_stats are not those of a loaded
\* real model (true, true).
C22_FallbackIsObservable ==
    engine_call.op = "load_model" =>
        /\ ~engine_call.raised
        /\ Fallback(engine_call.given) =>
              <<is_loaded(engine), get_stats(engine).model_loaded>> # <<TRUE, TRUE>>

\* the last call was predict
Predicted == engine_call.op = "predict"
One == Cosine(1, 1)      \* 1.0

\* C23: predict raises nothing; on an engine whose model is not loaded it
\* returns Unknown, 0 and the error "Model not loaded"; and when shaping the
\* input or the forward pass met an error it returns Unknown, 0 and an error.
C23_PredictFlagsErrors ==
    Predicted =>
        /\ ~engine_call.raised
        /\ ~is_loaded(engine) =>
              engine_call.value =
                 [speaker_name |-> "Unknown", confidence |-> Zero, speaker_id |-> NoSpeakerId,
                  error |-> "Model not loaded"]
        /\ (is_loaded(engine)
              /\ (engine_call.given.features = "malformed" \/ engine_call.given.raises)) =>
              /\ engine_call.value.speaker_name = "Unknown"
              /\ engine_call.value.confidence = Zero
              /\ engine_call.value.error # None

\* C24: the confidence of every result of predict is at least 0 and at most 1.
C24_ConfidenceInUnitRange ==
    Predicted =>
        /\ ~Less(engine_call.value.confidence, Zero)
        /\ ~Less(One, engine_call.value.confidence)

\* the last call was an enrollment of one embedding followed by its classification
RoundTrip == engine_call.op = "enroll_speaker, _classify_speaker"
\* every other cached profile is less similar to the embedding than the enrolled one
OthersLower ==
    \A n \in Profiles :
        engine.embedding_cache[n].id # engine_call.id =>
            Less(SimilarityTo(n),
                 Similarity(engine_call.embedding,
                            Item(engine.embedding_cache, engine_call.id).embedding))
\* the classification returned the enrolled label and id, with confidence >= 0.99
Recognized ==
    /\ engine_call.value.speaker_name = engine_call.name
    /\ engine_call.value.speaker_id = engine_call.id
    /\ ~Less(engine_call.value.confidence, Cosine(99, 10000))

\* C25 as stated: for every embedding E, enrolling E and classifying E returns
\* the enrolled label and id with confidence >= 0.99 whenever every other
\* profile is less similar to E.
C25_RoundTrip == (RoundTrip /\ OthersLower) => Recognized

\* C25 amended: the same for every embedding E that is not the zero vector.
C25_RoundTripNonZero ==
    (RoundTrip /\ OthersLower /\ engine_call.embedding # ZeroVector) => Recognized

\* C25 witness: a non-zero embedding was enrolled for a speaker cached before
\* and recognized, beside another profile whose similarity is above the threshold.
C25_Witness ==
    /\ RoundTrip
    /\ OthersLower
    /\ engine_call.cached
    /\ engine_call.embedding # ZeroVector
    /\ \E n \in Profiles : /\ engine.embedding_cache[n].id # engine_call.id
                           /\ ~Less(SimilarityTo(n), Threshold)
    /\ Recognized

\* a <= b for two fractions with positive denominators
AtMost(a, b) == a.num * b.den <= b.num * a.den

\* C29: a process_audio_chunk call that returns anything but a recognition
\* result leaves processing_stats unchanged; one that returns a recognition
\* result adds 1 to total_chunks_processed and moves voice_activity_ratio r to
\* 0.1 + 0.9 * r; and no step makes voice_activity_ratio smaller.
C29_StatsChangeOnlyOnInference ==
    [][/\ (processed' # processed /\ audio_call'.op = "process_audio_chunk") =>
             IF audio_call'.outcome.type = "recognition_result"
             THEN LET r == processing_stats.voice_activity_ratio
                      q == processing_stats'.voice_activity_ratio
                  IN /\ processing_stats'.total_chunks_processed =
                           processing_stats.total_chunks_processed + 1
                     /\ 10 * q.num * r.den = q.den * (r.den + 9 * r.num)
             ELSE processing_stats' = processing_stats
       /\ AtMost(processing_stats.voice_activity_ratio, processing_stats'.voice_activity_ratio)
      ]_vars

\* C29 witness: a second recognition result moved the ratio from 0.1 to 0.19,
\* after a processing time different from the first one's.
C29_Witness ==
    /\ Processed
    /\ audio_call.outcome.type = "recognition_result"
    /\ processing_stats.total_chunks_processed = 2
    /\ processing_stats.voice_activity_ratio = [num |-> 19, den |-> 100]
    /\ processing_stats.average_processing_time = [num |-> 3, den |-> 2]

\* C26: the status in the snapshot is "active" for a utilization below 90,
\* "warning" from 90 to 95 inclusive and "error" above 95.
C26_StatusByUtilization ==
    LET u == dashboard_data.system_status.usage
    IN dashboard_data.system_status.status =
           (IF u < 90 THEN "active" ELSE IF u <= 95 THEN "warning" ELSE "error")

\* C27: the telemetry task whose handle the manager holds is alive: it has
\* not run to its end, so it goes on broadcasting system_status messages.
C27_HeldTaskIsAlive ==
    metrics_update_task # None => tasks[metrics_update_task] \in Alive

\* The handler of observer o takes an except clause of its receive loop in this
\* step: the message it received is not valid JSON, or the broadcast its
\* handle_message awaits has raised.
InvalidJsonReceived(o) ==
    pc[o] = "receive" /\ received'[o] # received[o] /\ handling'[o].type = "invalid_json"

HandlingRaises(o) == pc[o] = "bcast" /\ pc'[o] = "error_send"

\* messages_received of a session that is still in client_info
MessagesReceivedKept(o) ==
    (o \in DOMAIN client_info /\ o \in DOMAIN client_info')
        => client_info'[o].messages_received = client_info[o].messages_received

\* C28: an inbound observer message that is not valid JSON or whose handling
\* raises is answered with one error message to the sender; nothing was sent
\* to any other session for it, messages_received of the sender is not
\* incremented, and once the error message is sent on a working transport the
\* session is registered and back at its receive.
C28_ErrorAnswerOnly ==
    [][\A o \in Observers :
          /\ (InvalidJsonReceived(o) \/ HandlingRaises(o)) =>
                /\ pc'[o] = "error_send"
                /\ frame'[o].kind = "client"
                /\ frame'[o].cur = o
                /\ frame'[o].msg = ErrorMsg
                /\ \A q \in Procs \ {o} : frame'[q] = frame[q]
                /\ MessagesReceivedKept(o)
                /\ Registered' = Registered
          /\ HandlingRaises(o) => \A s \in Sessions \ {o} : frame[o].delivered[s] = 0
          /\ (pc[o] = "error_send" /\ pc'[o] # "error_send") =>
                /\ pc'[o] = "receive"
                /\ frame'[o].kind = "none"
                /\ \A q \in Procs \ {o} : frame'[q] = frame[q]
                /\ MessagesReceivedKept(o)
                /\ (frame[o].ok /\ o \in Registered) =>
                      (Registered' = Registered /\ o \in DOMAIN client_info')
      ]_vars
====
